---- MODULE Spec2Model ----
(***************************************************************************)
(* Model of ControlChart/control_chart.py: a streaming control chart.      *)
(* main() parses the options -m (centerline) and -s (standard deviation),  *)
(* control_chart() builds the four tests and feeds them every value that   *)
(* the generator load_stream() yields from the lines of stdin.             *)
(*                                                                         *)
(* Floats are modelled by integers: the model's numerals are small whole   *)
(* numbers, for which m +/- k*s is exact.  Text is a sequence of one       *)
(* character strings.  A diagnostic written by err_out is a record naming  *)
(* the rule, the side, the tier and the input line that caused it.         *)
(***************************************************************************)
EXTENDS Integers, Sequences, FiniteSets, TLC

VARIABLES
    argv,      \* the command line: the texts given to -m and -s, if any
    tty,       \* sys.stdin.isatty()
    pc,        \* where main() is: "start", "ready", "pull", "test", "done", "exit",
               \* or "crash" after an exception nobody caught
    rc,        \* the exit status, once pc is "done", "exit" or "crash"
    m, s,      \* options.m, options.s (0 until parse_args has set them)
    lines,     \* the lines read from stdin so far
    x,         \* the value load_stream yielded last (0 until the first)
    ti,        \* index in tests of the test that runs next on x
    w2, w1,    \* the windows of test_2_sigma and test_1_sigma
    wcl,       \* the windows of test_cl_shift, one per tier
    diags,     \* what err_out has written
    seen,      \* per test, the values it was called with
    observed,  \* the values load_stream has yielded
    profile    \* which family of input streams stdin is drawn from

vars == <<argv, tty, pc, rc, m, s, lines, x, ti, w2, w1, wcl, diags, seen, observed, profile>>

(***************************************************************************)
(* Bounds of the model.                                                    *)
(***************************************************************************)
\* largest magnitude of a numeral on an input line
MaxVal == 4
\* lines of an arbitrary stream (profile "any")
MaxLines == 3
\* lines of a stream that exercises the line syntax (profile "syntax")
MaxSyntaxLines == 2
\* arbitrary lines before the constant tail of a long stream (profile "long")
MaxPrefix == 1
\* magnitude of the low and the high numeral of a long stream
MaxLongVal == 2
\* lines of a long stream: past the largest window (20) so that it wraps
MaxLong == 22
\* lines of a stream of two constant runs (profile "step")
MaxStep == 12

Centers == {0, 1}
Stdevs == {-1, 0, 1}

(***************************************************************************)
(* Text: str.strip and float().                                            *)
(***************************************************************************)
Digits == <<"0", "1", "2", "3", "4", "5", "6", "7", "8", "9">>
DigitSet == {Digits[i] : i \in 1..Len(Digits)}
DigitVal(c) == (CHOOSE i \in 1..Len(Digits) : Digits[i] = c) - 1
Whitespace == {" ", "\n"}

RECURSIVE LStrip(_, _)
LStrip(str, chars) ==
    IF str # <<>> /\ Head(str) \in chars THEN LStrip(Tail(str), chars) ELSE str

RECURSIVE RStrip(_, _)
RStrip(str, chars) ==
    IF str # <<>> /\ str[Len(str)] \in chars
    THEN RStrip(SubSeq(str, 1, Len(str) - 1), chars)
    ELSE str

\* str.strip(chars): drop leading and trailing characters that are in chars
Strip(str, chars) == RStrip(LStrip(str, chars), chars)

RECURSIVE Decimal(_)
Decimal(ds) ==
    IF ds = <<>> THEN 0
    ELSE 10 * Decimal(SubSeq(ds, 1, Len(ds) - 1)) + DigitVal(ds[Len(ds)])

AllDigits(ds) == ds # <<>> /\ \A i \in 1..Len(ds) : ds[i] \in DigitSet

\* float(text): surrounding whitespace is ignored, then an optional sign and
\* digits; anything else raises ValueError (ok = FALSE)
Float(text) ==
    LET t == Strip(text, Whitespace)
        signed == t # <<>> /\ Head(t) \in {"-", "+"}
        ds == IF signed THEN Tail(t) ELSE t
    IN  IF AllDigits(ds)
        THEN [ok |-> TRUE,
              val |-> IF signed /\ Head(t) = "-" THEN 0 - Decimal(ds) ELSE Decimal(ds)]
        ELSE [ok |-> FALSE, val |-> 0]

\* the decimal numeral of an integer of one digit, as "%d" would write it
Numeral(v) == IF v < 0 THEN <<"-", Digits[1 - v]>> ELSE <<Digits[v + 1]>>

(***************************************************************************)
(* class Window                                                            *)
(***************************************************************************)
\* Window.__init__(n, init): slot j of data is data[j + 1]; raised is set when
\* an append let an exception escape
WindowNew(n, init) ==
    [idx |-> 0, n |-> n, data |-> [j \in 1..n |-> init], raised |-> FALSE]

\* self.data[i] = value raises IndexError: i is no index of an array of n
IndexError(w, i) == i \notin (0 - w.n)..(w.n - 1)

\* a Window.append that forgets to reset idx: past the end it keeps writing the
\* last slot
WindowAppendNoReset(w, value) ==
    IF w.idx < w.n
    THEN [w EXCEPT !.data[w.idx + 1] = value, !.idx = w.idx + 1]
    ELSE [w EXCEPT !.data[w.n] = value]

\* a Window.append without the try/except: the IndexError escapes
WindowAppendNoHandler(w, value) ==
    IF ~IndexError(w, w.idx)
    THEN [w EXCEPT !.data[w.idx + 1] = value, !.idx = w.idx + 1]
    ELSE [w EXCEPT !.raised = TRUE]

\* a Window.append that advances the cursor modulo n right after the write
WindowAppendModulo(w, value) ==
    [w EXCEPT !.data[w.idx + 1] = value, !.idx = (w.idx + 1) % w.n]

\* a Window.append that shifts the entries down and stores at the end
WindowAppendShift(w, value) ==
    [w EXCEPT !.data = [j \in 1..w.n |-> IF j < w.n THEN w.data[j + 1] ELSE value],
              !.idx = IF w.idx < w.n THEN w.idx + 1 ELSE 1]

\* Window.append(value): writing at idx = n raises IndexError, which resets
\* idx to 0 before the write; idx is then incremented.  An IndexError of the
\* handler's own write would escape.
WindowAppend(w, value) ==
    IF ~IndexError(w, w.idx)
    THEN [w EXCEPT !.data[w.idx + 1] = value, !.idx = w.idx + 1]
    ELSE IF ~IndexError(w, 0)
    THEN [w EXCEPT !.data[1] = value, !.idx = 1]
    ELSE [w EXCEPT !.idx = 0, !.raised = TRUE]

\* a count that takes an entry equal to the bound as above it
CountAtOrAbove(w, bound) == Cardinality({j \in 1..w.n : w.data[j] >= bound})

\* np.sum(w.data > bound) and np.sum(w.data < bound)
CountAbove(w, bound) == Cardinality({j \in 1..w.n : w.data[j] > bound})
CountBelow(w, bound) == Cardinality({j \in 1..w.n : w.data[j] < bound})

NoWindow == [idx |-> 0, n |-> 0, data |-> <<>>, raised |-> FALSE]

(***************************************************************************)
(* The tests.  Each returns what its closure test(x) writes to err_out.    *)
(***************************************************************************)
\* err_out(msg): the message names the rule, the side and the tier; the model
\* adds the line of stdin that was read last and how many values had been
\* yielded when it was written
Diag(rule, side, k, n, line, at) ==
    [rule |-> rule, side |-> side, k |-> k, n |-> n, line |-> line, at |-> at]

\* test_3_sigma: the side x is out on, "" when it is within the limits
Sigma3Side(mm, ss, xx) ==
    LET lcl == mm - 3 * ss
        ucl == mm + 3 * ss
    IN  IF xx < lcl THEN "<" ELSE IF xx > ucl THEN ">" ELSE ""

\* the if/elif of test_2_sigma, test_1_sigma and of a tier of test_cl_shift,
\* on the window w after the append
ClusterSide(w, lcl, ucl, k) ==
    IF CountAbove(w, ucl) >= k THEN ">"
    ELSE IF CountBelow(w, lcl) >= k THEN "<"
    ELSE ""

\* a two-sigma rule that stays silent unless the value just appended is
\* itself beyond a limit
Sigma2SideNewOnly(w, mm, ss) ==
    LET latest == w.data[w.idx]
    IN  IF latest > mm + 2 * ss \/ latest < mm - 2 * ss
        THEN ClusterSide(w, mm - 2 * ss, mm + 2 * ss, 2)
        ELSE ""

\* test_2_sigma: Window(3), limits m -/+ 2 s, 2 points
Sigma2Side(w, mm, ss) == ClusterSide(w, mm - 2 * ss, mm + 2 * ss, 2)

\* test_1_sigma: Window(5), limits m -/+ 1 s, 4 points
Sigma1Side(w, mm, ss) == ClusterSide(w, mm - 1 * ss, mm + 1 * ss, 4)

\* tiers that ask for half of the window only
TiersHalf == << [k |-> 4, n |-> 8], [k |-> 5, n |-> 11], [k |-> 7, n |-> 14],
                [k |-> 8, n |-> 17], [k |-> 10, n |-> 20] >>

\* test_cl_shift: the (points, window size) of its windows, in list order
Tiers == << [k |-> 8, n |-> 8], [k |-> 10, n |-> 11], [k |-> 12, n |-> 14],
            [k |-> 14, n |-> 17], [k |-> 16, n |-> 20] >>

\* a loop that stops at the first tier that fires
RECURSIVE ShiftLoopBreak(_, _, _, _, _, _)
ShiftLoopBreak(ws, i, cl, xx, line, at) ==
    IF i > Len(ws) THEN [ws |-> ws, out |-> <<>>]
    ELSE LET w == WindowAppend(ws[i], xx)
             side == ClusterSide(w, cl, cl, Tiers[i].k)
             rest == ShiftLoopBreak([ws EXCEPT ![i] = w], i + 1, cl, xx, line, at)
         IN  IF w.raised THEN [ws |-> [ws EXCEPT ![i] = w], out |-> <<>>]
             ELSE IF side = "" THEN rest
             ELSE [ws |-> [ws EXCEPT ![i] = w],
                   out |-> <<Diag("centerline", side, Tiers[i].k, w.n, line, at)>>]

\* a loop that takes the window size for the number of points required
RECURSIVE ShiftLoopAllPoints(_, _, _, _, _, _)
ShiftLoopAllPoints(ws, i, cl, xx, line, at) ==
    IF i > Len(ws) THEN [ws |-> ws, out |-> <<>>]
    ELSE LET w == WindowAppend(ws[i], xx)
             side == ClusterSide(w, cl, cl, w.n)
             rest == ShiftLoopAllPoints([ws EXCEPT ![i] = w], i + 1, cl, xx, line, at)
         IN  IF w.raised THEN [ws |-> [ws EXCEPT ![i] = w], out |-> <<>>]
             ELSE
             [ws |-> rest.ws,
              out |-> (IF side = "" THEN <<>>
                       ELSE <<Diag("centerline", side, Tiers[i].k, w.n, line, at)>>)
                      \o rest.out]

\* the body of "for n, w in windows" from tier i on: every window is appended
\* to and checked in turn; gives the windows and the diagnostics written (an
\* exception that escapes an append ends the loop)
RECURSIVE ShiftLoop(_, _, _, _, _, _)
ShiftLoop(ws, i, cl, xx, line, at) ==
    IF i > Len(ws) THEN [ws |-> ws, out |-> <<>>]
    ELSE LET w == WindowAppend(ws[i], xx)
             side == ClusterSide(w, cl, cl, Tiers[i].k)
             rest == ShiftLoop([ws EXCEPT ![i] = w], i + 1, cl, xx, line, at)
         IN  IF w.raised THEN [ws |-> [ws EXCEPT ![i] = w], out |-> <<>>]
             ELSE
             [ws |-> rest.ws,
              out |-> (IF side = "" THEN <<>>
                       ELSE <<Diag("centerline", side, Tiers[i].k, w.n, line, at)>>)
                      \o rest.out]

\* a list of tests built in another order
TestsSwapped == <<"test_2_sigma", "test_3_sigma", "test_1_sigma", "test_cl_shift">>

\* control_chart: the list tests, in the order of its appends
Tests == <<"test_3_sigma", "test_2_sigma", "test_1_sigma", "test_cl_shift">>

(***************************************************************************)
(* The input streams.                                                      *)
(***************************************************************************)
Quotes == {"\"", "'"}
NumeralLine(v) == Numeral(v) \o <<"\n">>

\* profile "any": plain numerals, an empty line and a line that is no number
AnyLines == {NumeralLine(v) : v \in (0 - MaxVal)..MaxVal} \cup {<<"\n">>, <<"a", "\n">>}

\* profile "long": the same with three levels only, low, zero and high
LongLines ==
    {NumeralLine(v) : v \in {0 - MaxLongVal, 0, MaxLongVal}} \cup {<<"\n">>, <<"a", "\n">>}

\* profile "syntax": blanks, a sign, quotes of either kind on either side
SyntaxLines ==
    {q1 \o body \o q2 \o <<"\n">> :
        q1 \in {<<>>, <<"\"">>, <<"'">>},
        body \in {<<>>, <<"2">>, <<" ", "-", "1">>, <<"a">>},
        q2 \in {<<>>, <<"\"">>, <<"'">>}}

Profiles == {"any", "long", "syntax", "step"}

\* the lines read so far are all the same
OneRun == \A i \in 1..Len(lines) : lines[i] = lines[1]

\* the lines stdin may deliver next
NextLines ==
    CASE profile = "any" ->
            IF Len(lines) < MaxLines THEN AnyLines ELSE {}
      [] profile = "syntax" ->
            IF Len(lines) < MaxSyntaxLines THEN SyntaxLines ELSE {}
      [] profile = "long" ->
            IF Len(lines) >= MaxLong THEN {}
            ELSE IF Len(lines) <= MaxPrefix THEN LongLines
            ELSE {lines[Len(lines)]}
      [] profile = "step" ->
            \* a run of one line, then a run of another, of the three levels
            IF Len(lines) >= MaxStep THEN {}
            ELSE IF OneRun THEN LongLines
            ELSE {lines[Len(lines)]}

\* the texts a command line may give to -m and to -s
BadArg == <<"a">>
CenterArgs == {Numeral(v) : v \in Centers} \cup {BadArg}
StdevArgs == {Numeral(v) : v \in Stdevs} \cup {BadArg}

(***************************************************************************)
(* The program.                                                            *)
(***************************************************************************)
Start ==
    /\ argv \in [hasM : BOOLEAN, mText : CenterArgs, hasS : BOOLEAN, sText : StdevArgs]
    /\ (~argv.hasM => argv.mText = BadArg)
    /\ (~argv.hasS => argv.sText = BadArg)
    /\ tty \in BOOLEAN
    /\ pc = "start"
    /\ rc = 0
    /\ m = 0
    /\ s = 0
    /\ lines = <<>>
    /\ x = 0
    /\ ti = 1
    /\ w2 = NoWindow
    /\ w1 = NoWindow
    /\ wcl = <<>>
    /\ diags = <<>>
    /\ seen = [t \in {Tests[i] : i \in 1..Len(Tests)} |-> <<>>]
    /\ observed = <<>>

Init == Start /\ profile \in Profiles
InitAny == Start /\ profile = "any"
InitLong == Start /\ profile = "long"
InitSyntax == Start /\ profile = "syntax"
InitStep == Start /\ profile = "step"

\* a parse_args whose -s is not required: left out, it is 0
ArgsOkStdevOptional ==
    /\ ~tty
    /\ argv.hasM /\ Float(argv.mText).ok
    /\ (argv.hasS => Float(argv.sText).ok)

\* parse_args accepts the command line: both options given, both float()
ArgsOk == /\ ~tty
          /\ argv.hasM /\ Float(argv.mText).ok
          /\ argv.hasS /\ Float(argv.sText).ok

\* parse_args returns the options
parse_args ==
    /\ pc = "start"
    /\ ArgsOk
    /\ m' = Float(argv.mText).val
    /\ s' = Float(argv.sText).val
    /\ pc' = "ready"
    /\ UNCHANGED <<argv, tty, rc, lines, x, ti, w2, w1, wcl, diags, seen, observed, profile>>

\* parse_args exits: sys.exit(1) on a terminal, argparse's error (status 2)
\* on a missing or non-numeric option
parse_args_exit ==
    /\ pc = "start"
    /\ ~ArgsOk
    /\ pc' = "exit"
    /\ rc' = IF tty THEN 1 ELSE 2
    /\ UNCHANGED <<argv, tty, m, s, lines, x, ti, w2, w1, wcl, diags, seen, observed, profile>>

\* control_chart up to its loop: the four tests are constructed
control_chart ==
    /\ pc = "ready"
    /\ w2' = WindowNew(3, m)
    /\ w1' = WindowNew(5, m)
    /\ wcl' = [i \in 1..Len(Tiers) |-> WindowNew(Tiers[i].n, m)]
    /\ pc' = "pull"
    /\ UNCHANGED <<argv, tty, rc, m, s, lines, x, ti, diags, seen, observed, profile>>

\* a load_stream that strips quotes of one kind only
CleanLineDoubleOnly(line) ==
    LET clean == Strip(line, Whitespace)
    IN  IF clean # <<>> /\ clean[1] \in Quotes
        THEN Strip(clean, {"\""})
        ELSE clean

\* load_stream: what one line of stdin becomes
CleanLine(line) ==
    LET clean == Strip(line, Whitespace)
    IN  IF clean # <<>> /\ clean[1] \in Quotes
        THEN Strip(Strip(clean, {"\""}), {"'"})
        ELSE clean

LineKind(line) ==
    IF Strip(line, Whitespace) = <<>> THEN "blank"
    ELSE IF Float(CleanLine(line)).ok THEN "value"
    ELSE "invalid"

\* load_stream skips an empty line
load_stream_blank ==
    /\ pc = "pull"
    /\ \E line \in NextLines :
          /\ LineKind(line) = "blank"
          /\ lines' = Append(lines, line)
    /\ UNCHANGED <<argv, tty, pc, rc, m, s, x, ti, w2, w1, wcl, diags, seen, observed, profile>>

\* load_stream reports a line float() rejects and goes on
load_stream_invalid ==
    /\ pc = "pull"
    /\ \E line \in NextLines :
          /\ LineKind(line) = "invalid"
          /\ lines' = Append(lines, line)
          /\ diags' = Append(diags, Diag("invalid line", "", 0, 0, Len(lines) + 1, Len(observed)))
    /\ UNCHANGED <<argv, tty, pc, rc, m, s, x, ti, w2, w1, wcl, seen, observed, profile>>

\* a load_stream that reads one line ahead: the line after the value is no
\* number and is reported before the value is yielded
load_stream_yield_ahead ==
    /\ pc = "pull"
    /\ \E line \in NextLines :
          /\ LineKind(line) = "value"
          /\ lines' = lines \o <<line, <<"a", "\n">>>>
          /\ x' = Float(CleanLine(line)).val
          /\ observed' = Append(observed, Float(CleanLine(line)).val)
    /\ diags' = Append(diags, Diag("invalid line", "", 0, 0, Len(lines) + 2, Len(observed)))
    /\ ti' = 1
    /\ pc' = "test"
    /\ UNCHANGED <<argv, tty, rc, m, s, w2, w1, wcl, seen, profile>>

\* load_stream yields a value; control_chart binds it to x
load_stream_yield ==
    /\ pc = "pull"
    /\ \E line \in NextLines :
          /\ LineKind(line) = "value"
          /\ lines' = Append(lines, line)
          /\ x' = Float(CleanLine(line)).val
          /\ observed' = Append(observed, Float(CleanLine(line)).val)
    /\ ti' = 1
    /\ pc' = "test"
    /\ UNCHANGED <<argv, tty, rc, m, s, w2, w1, wcl, diags, seen, profile>>

\* stdin is exhausted: the loop ends and control_chart returns 0
stream_end ==
    /\ pc = "pull"
    /\ pc' = "done"
    /\ rc' = 0
    /\ UNCHANGED <<argv, tty, m, s, lines, x, ti, w2, w1, wcl, diags, seen, observed, profile>>

\* after a test: the next test of the list, or the next value of the stream;
\* an exception that escaped the test ends the program with a traceback
Advance(raised) ==
    IF raised
    THEN pc' = "crash" /\ rc' = 1 /\ ti' = ti
    ELSE /\ ti' = IF ti < Len(Tests) THEN ti + 1 ELSE 1
         /\ pc' = IF ti < Len(Tests) THEN "test" ELSE "pull"
         /\ rc' = rc

Running(name) == pc = "test" /\ Tests[ti] = name

test_3_sigma ==
    /\ Running("test_3_sigma")
    /\ LET side == Sigma3Side(m, s, x)
       IN  diags' = IF side = "" THEN diags
                    ELSE Append(diags, Diag("3 sigma", side, 1, 1, Len(lines), Len(observed)))
    /\ seen' = [seen EXCEPT !["test_3_sigma"] = Append(@, x)]
    /\ Advance(FALSE)
    /\ UNCHANGED <<argv, tty, m, s, lines, x, w2, w1, wcl, observed, profile>>

test_2_sigma ==
    /\ Running("test_2_sigma")
    /\ w2' = WindowAppend(w2, x)
    /\ LET side == Sigma2Side(w2', m, s)
       IN  diags' = IF w2'.raised \/ side = "" THEN diags
                    ELSE Append(diags, Diag("2 sigma", side, 2, 3, Len(lines), Len(observed)))
    /\ seen' = [seen EXCEPT !["test_2_sigma"] = Append(@, x)]
    /\ Advance(w2'.raised)
    /\ UNCHANGED <<argv, tty, m, s, lines, x, w1, wcl, observed, profile>>

test_1_sigma ==
    /\ Running("test_1_sigma")
    /\ w1' = WindowAppend(w1, x)
    /\ LET side == Sigma1Side(w1', m, s)
       IN  diags' = IF w1'.raised \/ side = "" THEN diags
                    ELSE Append(diags, Diag("1 sigma", side, 4, 5, Len(lines), Len(observed)))
    /\ seen' = [seen EXCEPT !["test_1_sigma"] = Append(@, x)]
    /\ Advance(w1'.raised)
    /\ UNCHANGED <<argv, tty, m, s, lines, x, w2, wcl, observed, profile>>

test_cl_shift ==
    /\ Running("test_cl_shift")
    /\ LET r == ShiftLoop(wcl, 1, m, x, Len(lines), Len(observed))
       IN  /\ wcl' = r.ws
           /\ diags' = diags \o r.out
    /\ seen' = [seen EXCEPT !["test_cl_shift"] = Append(@, x)]
    /\ Advance(\E i \in 1..Len(wcl') : wcl'[i].raised)
    /\ UNCHANGED <<argv, tty, m, s, lines, x, w2, w1, observed, profile>>

Next ==
    \/ parse_args
    \/ parse_args_exit
    \/ control_chart
    \/ load_stream_blank
    \/ load_stream_invalid
    \/ load_stream_yield
    \/ stream_end
    \/ test_3_sigma
    \/ test_2_sigma
    \/ test_1_sigma
    \/ test_cl_shift

Spec == Init /\ [][Next]_vars
SpecAny == InitAny /\ [][Next]_vars
SpecLong == InitLong /\ [][Next]_vars
SpecSyntax == InitSyntax /\ [][Next]_vars
SpecStep == InitStep /\ [][Next]_vars

(***************************************************************************)
(* Properties.                                                             *)
(***************************************************************************)
\* the test named has been called with the current x
Ran(name) == observed # <<>> /\ Len(seen[name]) = Len(observed)

\* the diagnostics of a rule written for the i-th value
DiagsAt(rule, i) == {j \in 1..Len(diags) : diags[j].rule = rule /\ diags[j].at = i}

RuleNames == {"3 sigma", "2 sigma", "1 sigma", "centerline"}
RuleDiags == {j \in 1..Len(diags) : diags[j].rule \in RuleNames}

\* C1: for every centerline m, stdev s and value x the three-sigma rule writes
\* nothing when m-3s <= x <= m+3s, exactly one "< 3 sigma" when x < m-3s and
\* exactly one "> 3 sigma" when x > m+3s, whatever came before x.
C1_ThreeSigmaRule ==
    \A i \in 1..Len(seen["test_3_sigma"]) :
        LET v == observed[i]
            D == DiagsAt("3 sigma", i)
        IN  /\ (m - 3 * s <= v /\ v <= m + 3 * s) => D = {}
            /\ v < m - 3 * s =>
                  Cardinality(D) = 1 /\ \A j \in D : diags[j].side = "<"
            /\ v > m + 3 * s =>
                  Cardinality(D) = 1 /\ \A j \in D : diags[j].side = ">"

\* how many of the values really observed among the n latest up to the i-th
\* are beyond the limit m +/- mult*s on the given side
RealBeyond(i, n, mult, side) ==
    Cardinality({h \in 1..i : /\ h > i - n
                              /\ IF side = ">" THEN observed[h] > m + mult * s
                                 ELSE observed[h] < m - mult * s})

\* C5: in every run the engine performs, a two-sigma or one-sigma diagnostic
\* is written only when at least threshold really observed values of the window
\* are beyond the limit on that side (the placeholders never count); so the
\* two-sigma rule is silent on the 1st value, the one-sigma rule on the first 3.
C5_PaddingNeverFires ==
    \A j \in 1..Len(diags) :
        /\ diags[j].rule = "2 sigma" =>
              /\ RealBeyond(diags[j].at, 3, 2, diags[j].side) >= 2
              /\ diags[j].at >= 2
        /\ diags[j].rule = "1 sigma" =>
              /\ RealBeyond(diags[j].at, 5, 1, diags[j].side) >= 4
              /\ diags[j].at >= 4

\* the stdev the command line gives is a number that is zero or negative
StdevNotPositive ==
    argv.hasS /\ Float(argv.sText).ok /\ Float(argv.sText).val <= 0

\* C6: a chart whose stdev is zero or negative is rejected before any input is
\* processed: no line is read, no rule diagnostic is written.
C6_StdevRejected ==
    StdevNotPositive =>
        /\ pc \in {"start", "exit"}
        /\ lines = <<>>
        /\ RuleDiags = {}

\* C7: in a fresh two-sigma rule, when the first two values are both above
\* m + 2s, nothing is written on the 1st value and the upper diagnostic is
\* written on the 2nd.
C7_TwoSigmaEarly ==
    (/\ Len(seen["test_2_sigma"]) >= 2
     /\ observed[1] > m + 2 * s
     /\ observed[2] > m + 2 * s) =>
        /\ DiagsAt("2 sigma", 1) = {}
        /\ \E j \in DiagsAt("2 sigma", 2) : diags[j].side = ">"

\* the entries of a window beyond a bound, counted slot by slot
Above(w, bound) == Cardinality({j \in 1..Len(w.data) : w.data[j] > bound})
Below(w, bound) == Cardinality({j \in 1..Len(w.data) : w.data[j] < bound})

\* for the current value, the rule has appended it to w (one append per value
\* so far, the latest being x) and written the upper diagnostic iff k entries
\* are above ucl, else the lower one iff k entries are below lcl, else nothing
ClusterVerdict(D, w, lcl, ucl, k) ==
    /\ w.idx = ((Len(observed) - 1) % Len(w.data)) + 1
    /\ w.data[w.idx] = x
    /\ Cardinality(D) <= 1
    /\ (\E j \in D : diags[j].side = ">") <=> Above(w, ucl) >= k
    /\ (\E j \in D : diags[j].side = "<") <=> (Above(w, ucl) < k /\ Below(w, lcl) >= k)

\* C2: on every value and after any history, the two-sigma rule (window 3,
\* limits m+/-2s, 2 points) and the one-sigma rule (window 5, limits m+/-1s,
\* 4 points) append the value, then write the upper diagnostic iff the count of
\* entries strictly above ucl reaches the threshold, otherwise the lower one
\* iff the count strictly below lcl does, otherwise nothing; at most one each.
C2_ClusteringRules ==
    /\ Ran("test_2_sigma") =>
          /\ Len(w2.data) = 3
          /\ ClusterVerdict(DiagsAt("2 sigma", Len(observed)), w2, m - 2 * s, m + 2 * s, 2)
    /\ Ran("test_1_sigma") =>
          /\ Len(w1.data) = 5
          /\ ClusterVerdict(DiagsAt("1 sigma", Len(observed)), w1, m - s, m + s, 4)

\* the one-sigma rule fires on the lower side with an entry exactly on lcl in
\* its window, after the two-sigma rule has fired too
C2_Witness ==
    /\ Ran("test_1_sigma")
    /\ s > 0
    /\ \E j \in DiagsAt("1 sigma", Len(observed)) : diags[j].side = "<"
    /\ \E j \in 1..5 : w1.data[j] = m - s
    /\ \E j \in 1..Len(diags) : diags[j].rule = "2 sigma"

\* the (points, size) of the five tiers, as the claims list them
ClaimTiers == <<<<8, 8>>, <<10, 11>>, <<12, 14>>, <<14, 17>>, <<16, 20>>>>

\* the centerline diagnostics of tier (k, n) written for the i-th value
TierDiags(i, k, n) ==
    {j \in DiagsAt("centerline", i) : diags[j].k = k /\ diags[j].n = n}

\* C3: on every value the centerline-shift rule appends the value to all five
\* tier windows and evaluates every tier, whether or not an earlier tier
\* fired: tier (k,N) writes "> centerline" iff k of its N entries are above
\* the centerline, otherwise "< centerline" iff k are below; at most one each.
C3_ShiftTiers ==
    Ran("test_cl_shift") =>
        /\ Len(wcl) = 5
        /\ \A t \in 1..5 :
              /\ Len(wcl[t].data) = ClaimTiers[t][2]
              /\ ClusterVerdict(TierDiags(Len(observed), ClaimTiers[t][1], ClaimTiers[t][2]),
                                wcl[t], m, m, ClaimTiers[t][1])
        /\ \A j \in DiagsAt("centerline", Len(observed)) :
              \E t \in 1..5 : diags[j].k = ClaimTiers[t][1] /\ diags[j].n = ClaimTiers[t][2]

\* all five tiers write a diagnostic for the same value
C3_Witness ==
    /\ Ran("test_cl_shift")
    /\ \A t \in 1..5 : TierDiags(Len(observed), ClaimTiers[t][1], ClaimTiers[t][2]) # {}

\* a window of capacity n and initial value v0 holds, after the appends vals
\* (numbered from 0), in slot j the value of the latest append i with
\* i mod n = j, or v0 when there was none
RingHolds(w, n, v0, vals) ==
    /\ Len(w.data) = n
    /\ \A j \in 0..(n - 1) :
          LET t == Len(vals)
              latest == j + n * ((t - 1 - j) \div n)
          IN  w.data[j + 1] = IF j >= t THEN v0 ELSE vals[latest + 1]

\* Window(4) after the appends 0..9 of the usage example
RECURSIVE AppendAll(_, _)
AppendAll(w, vals) ==
    IF vals = <<>> THEN w ELSE AppendAll(WindowAppend(w, Head(vals)), Tail(vals))

UsageExample == AppendAll(WindowNew(4, 0), [i \in 1..10 |-> i - 1])

\* C4: a window of capacity N created with v0 holds, after any t appends, the
\* min(t,N) latest values and v0 elsewhere; the i-th append overwrites slot
\* i mod N and nothing is shifted (Window(4) after 0..9 holds [8, 9, 6, 7]).
C4_RingBuffer ==
    /\ UsageExample.data = <<8, 9, 6, 7>>
    /\ pc \in {"pull", "test", "done"} =>
          /\ RingHolds(w2, 3, m, seen["test_2_sigma"])
          /\ RingHolds(w1, 5, m, seen["test_1_sigma"])
          /\ \A t \in 1..5 : RingHolds(wcl[t], ClaimTiers[t][2], m, seen["test_cl_shift"])

\* the window of 20 has wrapped: its first slot holds the 21st value, which
\* differs from the 1st
C4_Witness ==
    /\ Len(seen["test_cl_shift"]) > 20
    /\ observed[21] # observed[1]
    /\ wcl[5].data[1] = observed[21]

AllAbove == \A i \in 1..Len(observed) : observed[i] > m
AllBelow == \A i \in 1..Len(observed) : observed[i] < m

\* C8: in a fresh engine fed values all strictly above the centerline, tier
\* (k,N) writes nothing on the first k-1 values and fires on the k-th (so on
\* the 8th value (8,8) fires and (10,11) has not, firing first on the 10th);
\* symmetrically for values all strictly below.
C8_TiersIndependent ==
    (AllAbove \/ AllBelow) =>
        LET side == IF AllAbove THEN ">" ELSE "<"
            IsTier(d, t) == /\ d.rule = "centerline"
                            /\ d.k = ClaimTiers[t][1]
                            /\ d.n = ClaimTiers[t][2]
        IN  \A t \in 1..5 :
                /\ \A j \in 1..Len(diags) :
                      IsTier(diags[j], t) => diags[j].at >= ClaimTiers[t][1]
                /\ Len(seen["test_cl_shift"]) >= ClaimTiers[t][1] =>
                      \E j \in 1..Len(diags) :
                          /\ IsTier(diags[j], t)
                          /\ diags[j].at = ClaimTiers[t][1]
                          /\ diags[j].side = side

\* a run of 16 values below the centerline, not all equal: the last tier fired
C8_Witness ==
    /\ AllBelow
    /\ Len(seen["test_cl_shift"]) >= 16
    /\ observed[1] # observed[2]
    /\ TierDiags(8, 8, 8) # {}
    /\ TierDiags(8, 10, 11) = {}
    /\ TierDiags(16, 16, 20) # {}

\* what the claim says of a line: trimmed, quotes optionally stripped, float
Trimmed(line) == Strip(line, Whitespace)
Unquoted(text) ==
    IF text # <<>> /\ text[1] \in {"\"", "'"}
    THEN Strip(Strip(text, {"\""}), {"'"})
    ELSE text
IsBlank(line) == Trimmed(line) = <<>>
Parses(line) == ~IsBlank(line) /\ Float(Unquoted(Trimmed(line))).ok

RECURSIVE ValuesOf(_)
ValuesOf(ls) ==
    IF ls = <<>> THEN <<>>
    ELSE (IF Parses(Head(ls)) THEN <<Float(Unquoted(Trimmed(Head(ls)))).val>> ELSE <<>>)
         \o ValuesOf(Tail(ls))

InvalidDiags(i) ==
    {j \in 1..Len(diags) : diags[j].rule = "invalid line" /\ diags[j].line = i}

\* C9: the values that reach the engine are exactly the non-blank lines that
\* parse as floats, in input order; every non-blank line that does not parse
\* gives exactly one "invalid line" diagnostic and does not end the run; a
\* blank line gives neither a value nor a diagnostic.
C9_StreamSource ==
    /\ observed = ValuesOf(lines)
    /\ \A i \in 1..Len(lines) :
          Cardinality(InvalidDiags(i)) =
              IF ~IsBlank(lines[i]) /\ ~Parses(lines[i]) THEN 1 ELSE 0
    /\ \A j \in 1..Len(diags) :
          diags[j].rule = "invalid line" => diags[j].line \in 1..Len(lines)
    /\ lines # <<>> => pc \in {"pull", "test", "done"}

\* a quoted line that is no number, then a quoted number that is processed
C9_Witness ==
    /\ Len(lines) = 2
    /\ lines[1][1] \in Quotes /\ ~Parses(lines[1])
    /\ lines[2][1] = "'" /\ Parses(lines[2])
    /\ Cardinality(InvalidDiags(1)) = 1
    /\ seen["test_cl_shift"] = <<2>>

\* the place of a rule diagnostic in the fixed order: value, rule, tier
\* (Before is a strict order, so it is enough that neighbours are in order)
RuleRank(d) ==
    CASE d.rule = "3 sigma" -> 1
      [] d.rule = "2 sigma" -> 2
      [] d.rule = "1 sigma" -> 3
      [] d.rule = "centerline" -> 4
Before(d, e) ==
    \/ d.at < e.at
    \/ d.at = e.at /\ RuleRank(d) < RuleRank(e)
    \/ d.at = e.at /\ RuleRank(d) = RuleRank(e) /\ d.k < e.k

IsRuleDiag(d) == d.rule \in RuleNames

IsPrefix(a, b) == Len(a) <= Len(b) /\ a = SubSeq(b, 1, Len(a))

\* C10: every value of the stream is observed exactly once by each of the four
\* rules, in arrival order, and all rules are done with value i before value
\* i+1 is pulled; the diagnostics of a value come in the order 3-sigma,
\* 2-sigma, 1-sigma, centerline-shift (tiers 8/8 .. 16/20), and those of value
\* i before those of value i+1.
C10_DispatchOrder ==
    /\ \A name \in DOMAIN seen : IsPrefix(seen[name], observed)
    /\ Len(observed) >= Len(seen["test_3_sigma"])
    /\ Len(seen["test_3_sigma"]) >= Len(seen["test_2_sigma"])
    /\ Len(seen["test_2_sigma"]) >= Len(seen["test_1_sigma"])
    /\ Len(seen["test_1_sigma"]) >= Len(seen["test_cl_shift"])
    /\ Len(seen["test_cl_shift"]) >= Len(observed) - 1
    /\ pc \in {"pull", "done"} => \A name \in DOMAIN seen : seen[name] = observed
    /\ LET written == SelectSeq(diags, IsRuleDiag)
       IN  \A i \in 1..(Len(written) - 1) : Before(written[i], written[i + 1])

\* a value for which all four rules wrote a diagnostic, and a later value
C10_Witness ==
    \E i \in 1..Len(observed) :
        /\ i < Len(seen["test_cl_shift"])
        /\ \A r \in RuleNames : DiagsAt(r, i) # {}
        /\ Cardinality(DiagsAt("centerline", i)) > 1
        /\ DiagsAt("3 sigma", i + 1) # {}

Windows == <<w2, w1>> \o wcl

\* C12: the engine processes every value and, when the source is exhausted,
\* ends in "done" with status 0; no rule firing and no wrap-around of a window
\* raises an error or aborts the run: it never crashes, a value that was
\* pulled has a rule of the list waiting for it, every window keeps its
\* slots, and the run ends only with every value seen by every rule.
C12_NoFailure ==
    /\ pc # "crash"
    /\ \A i \in 1..Len(Windows) :
          ~Windows[i].raised /\ Len(Windows[i].data) = Windows[i].n
    /\ pc = "test" => ti \in 1..Len(Tests) /\ Tests[ti] \in DOMAIN seen
    /\ pc \in {"done", "pull"} => \A name \in DOMAIN seen : seen[name] = observed
    /\ pc = "done" => rc = 0 /\ observed = ValuesOf(lines)
    /\ rc # 0 => pc = "exit"

\* a run ended with status 0 after rules fired and the window of 20 wrapped
C12_Witness ==
    /\ pc = "done"
    /\ rc = 0
    /\ Len(observed) > 20
    /\ wcl[5].idx = Len(observed) - 20
    /\ RuleDiags # {}

\* what the command line gives for -m and -s is present and numeric
ParamsValid ==
    /\ argv.hasM /\ Float(argv.mText).ok
    /\ argv.hasS /\ Float(argv.sText).ok

\* Uninitialized, Ready, Running, Terminated
Phase ==
    CASE pc = "start" -> 0
      [] pc = "ready" -> 1
      [] pc \in {"pull", "test"} -> 2
      [] pc \in {"done", "exit", "crash"} -> 3

NothingProcessed ==
    lines = <<>> /\ observed = <<>> /\ diags = <<>> /\ \A name \in DOMAIN seen : seen[name] = <<>>

LifecycleState ==
    /\ Phase \in {1, 2} => ParamsValid
    /\ pc = "done" => ParamsValid /\ rc = 0
    /\ Phase < 2 => NothingProcessed
    /\ ~ParamsValid => /\ pc \in {"start", "exit"}
                       /\ NothingProcessed
                       /\ pc = "exit" => rc # 0

LifecycleStep ==
    /\ Phase' \in {Phase, Phase + 1} \/ (Phase = 0 /\ pc' = "exit")
    /\ (lines' # lines \/ observed' # observed \/ seen' # seen) => Phase = 2

\* C13: a run moves only forward through Uninitialized, Ready (parameters
\* validated), Running, Terminated; no value is pulled or observed before the
\* parameters are validated; a run with a missing or non-numeric centerline or
\* stdev exits with a failure status having processed nothing; nothing is
\* processed after Terminated.
C13_Lifecycle == []LifecycleState /\ [][LifecycleStep]_vars

\* a run without -s has exited with a failure status, nothing processed
C13_Witness ==
    /\ pc = "exit"
    /\ ~tty
    /\ argv.hasM /\ Float(argv.mText).ok
    /\ ~argv.hasS
    /\ rc # 0
    /\ NothingProcessed

\* a window of a clustering rule does not reach the threshold k on both sides,
\* and when the rule has run on the current value with k entries below lcl the
\* lower diagnostic D was written
SidesExclusive(D, w, lcl, ucl, k, ran) ==
    /\ ~(Above(w, ucl) >= k /\ Below(w, lcl) >= k)
    /\ (ran /\ Below(w, lcl) >= k) => \E j \in D : diags[j].side = "<"

\* C14: in every reachable state of the two-sigma window (N = 3, threshold 2)
\* and of the one-sigma window (N = 5, threshold 4) the count of entries above
\* ucl and the count below lcl are never both at the threshold, so the
\* priority of the upper check never suppresses a lower diagnostic that is due.
C14_SidesExclusive ==
    pc \in {"pull", "test", "done"} =>
        /\ SidesExclusive(DiagsAt("2 sigma", Len(observed)), w2,
                          m - 2 * s, m + 2 * s, 2, Ran("test_2_sigma"))
        /\ SidesExclusive(DiagsAt("1 sigma", Len(observed)), w1,
                          m - s, m + s, 4, Ran("test_1_sigma"))

\* from w to wn exactly the slot of append number t (counted from 0) was
\* written, with v; every other slot and the capacity are as before
WroteOneSlot(w, wn, t, v) ==
    /\ Len(wn.data) = Len(w.data)
    /\ \A j \in 1..Len(w.data) :
          wn.data[j] = IF j = (t % Len(w.data)) + 1 THEN v ELSE w.data[j]

\* the step is a call of the rule named
RuleStep(name) == seen'[name] # seen[name]

\* the diagnostics the step writes all carry the rule name given
WritesOnly(rule) ==
    /\ IsPrefix(diags, diags')
    /\ \A j \in (Len(diags) + 1)..Len(diags') : diags'[j].rule = rule

FrameStep ==
    /\ (\E name \in DOMAIN seen : RuleStep(name)) =>
          /\ Cardinality({name \in DOMAIN seen : RuleStep(name)}) = 1
          /\ UNCHANGED <<m, s, x, lines, observed>>
    /\ RuleStep("test_3_sigma") =>
          /\ UNCHANGED <<w2, w1, wcl>>
          /\ WritesOnly("3 sigma")
    /\ RuleStep("test_2_sigma") =>
          /\ UNCHANGED <<w1, wcl>>
          /\ WroteOneSlot(w2, w2', Len(seen["test_2_sigma"]), x)
          /\ WritesOnly("2 sigma")
    /\ RuleStep("test_1_sigma") =>
          /\ UNCHANGED <<w2, wcl>>
          /\ WroteOneSlot(w1, w1', Len(seen["test_1_sigma"]), x)
          /\ WritesOnly("1 sigma")
    /\ RuleStep("test_cl_shift") =>
          /\ UNCHANGED <<w2, w1>>
          /\ Len(wcl') = 5
          /\ \A t \in 1..5 : WroteOneSlot(wcl[t], wcl'[t], Len(seen["test_cl_shift"]), x)
          /\ WritesOnly("centerline")
    /\ (seen' = seen /\ pc # "ready") => UNCHANGED <<w2, w1, wcl>>

\* C15: processing one value writes exactly one slot in each of the seven
\* windows and leaves every other slot as it was; the three-sigma rule changes
\* no window; a rule writes no window and no diagnostic of another rule, and
\* nothing but the rules writes a window, so the order of the four rules does
\* not matter to the windows or to the diagnostics of a value.
C15_RulesShareNothing == [][FrameStep]_vars

\* the 4th value, which differs from the 1st, has gone through all four rules:
\* it replaced the 1st in the window of 3 and a placeholder in the others
C15_Witness ==
    /\ Ran("test_cl_shift")
    /\ Len(observed) = 4
    /\ observed[4] # observed[1]
    /\ w2.data = <<observed[4], observed[2], observed[3]>>
    /\ w1.data = <<observed[1], observed[2], observed[3], observed[4], m>>
    /\ \A t \in 1..5 : wcl[t].data[4] = observed[4] /\ wcl[t].data[5] = m
    /\ observed[4] # m

\* C16: for every tier (k,N) of (8,8), (10,11), (12,14), (14,17), (16,20), in
\* every reachable state of its window the count of entries strictly above
\* the centerline and the count strictly below are never both >= k, so the
\* elif of a tier never hides a "< centerline" diagnostic that is due: when
\* the rule has run on the current value and k entries are below, it is there.
C16_TierSidesExclusive ==
    pc \in {"pull", "test", "done"} =>
        \A t \in 1..5 :
            LET k == ClaimTiers[t][1]
                n == ClaimTiers[t][2]
            IN  /\ Len(wcl[t].data) = n
                /\ ~(Above(wcl[t], m) >= k /\ Below(wcl[t], m) >= k)
                /\ (Ran("test_cl_shift") /\ Below(wcl[t], m) >= k) =>
                      \E j \in TierDiags(Len(observed), k, n) : diags[j].side = "<"

\* the window of 11 holds one value above the centerline and ten below it, and
\* the tier wrote its lower diagnostic
C16_Witness ==
    /\ Ran("test_cl_shift")
    /\ Above(wcl[2], m) = 1
    /\ Below(wcl[2], m) = 10
    /\ \E j \in TierDiags(Len(observed), 10, 11) : diags[j].side = "<"

\* the window of capacity n as the history gives it after the i-th value: how
\* many of its entries are beyond the bound on the side given, among the n
\* latest values and the placeholders m still in it
HistCount(i, n, bound, side) ==
    LET beyond(v) == IF side = ">" THEN v > bound ELSE v < bound
        real == Cardinality({h \in 1..i : h > i - n /\ beyond(observed[h])})
        padding == IF i < n /\ beyond(m) THEN n - i ELSE 0
    IN  real + padding

\* what is due on the i-th value from the contents of the window alone
Due(i, n, lcl, ucl, k) ==
    IF HistCount(i, n, ucl, ">") >= k THEN ">"
    ELSE IF HistCount(i, n, lcl, "<") >= k THEN "<"
    ELSE ""

\* the diagnostics D are what is due: none, or one of the side due
Written(D, side) ==
    IF side = "" THEN D = {}
    ELSE Cardinality(D) = 1 /\ \A j \in D : diags[j].side = side

\* C17: a windowed rule's diagnostic depends only on the contents of the
\* window after the append: on the current value and on the one before it the
\* rule fired iff the window met the threshold, whether or not it had fired
\* on the value before and whether or not the new value is within bounds
\* (m=0, s=1, values 2.5, 2.5, 0: two-sigma fires on the 2nd and on the 3rd).
C17_NoLatching ==
    \A i \in {Len(observed) - 1, Len(observed)} :
        /\ i \in 1..Len(seen["test_2_sigma"]) =>
              Written(DiagsAt("2 sigma", i), Due(i, 3, m - 2 * s, m + 2 * s, 2))
        /\ i \in 1..Len(seen["test_1_sigma"]) =>
              Written(DiagsAt("1 sigma", i), Due(i, 5, m - s, m + s, 4))
        /\ i \in 1..Len(seen["test_cl_shift"]) =>
              \A t \in 1..5 :
                  Written(TierDiags(i, ClaimTiers[t][1], ClaimTiers[t][2]),
                          Due(i, ClaimTiers[t][2], m, m, ClaimTiers[t][1]))

\* two values beyond the two-sigma limit, then one within all limits: the
\* rule fired on the 2nd value and again on the 3rd
C17_Witness ==
    /\ s > 0
    /\ Len(seen["test_2_sigma"]) >= 3
    /\ observed[1] = observed[2]
    /\ observed[3] >= m - s /\ observed[3] <= m + s
    /\ DiagsAt("2 sigma", 1) = {}
    /\ DiagsAt("2 sigma", 2) # {}
    /\ DiagsAt("2 sigma", 3) # {}

\* the n latest values up to the i-th are n values equal to the centerline
CenterRun(i, n) == i >= n /\ \A h \in (i - n + 1)..i : observed[h] = m

\* C18: once N consecutive values equal to the centerline have been observed,
\* after any history, the rule with the window of capacity N writes nothing on
\* the N-th of them; after 20 such values no rule of the engine fires.
C18_BoundedRecovery ==
    LET i == Len(observed)
    IN  /\ (Len(seen["test_2_sigma"]) = i /\ CenterRun(i, 3)) => DiagsAt("2 sigma", i) = {}
        /\ (Len(seen["test_1_sigma"]) = i /\ CenterRun(i, 5)) => DiagsAt("1 sigma", i) = {}
        /\ Len(seen["test_cl_shift"]) = i =>
              \A t \in 1..5 :
                  CenterRun(i, ClaimTiers[t][2]) =>
                      TierDiags(i, ClaimTiers[t][1], ClaimTiers[t][2]) = {}
        /\ CenterRun(i, 20) => \A r \in RuleNames : DiagsAt(r, i) = {}

\* the line read last gave the current value: nothing was read after it
ValueLineLast == lines # <<>> /\ Parses(lines[Len(lines)])

\* a rule diagnostic of the current value
OfCurrentValue(d) == d.rule \in RuleNames /\ d.at = Len(observed)

\* C19: the diagnostics appear on the sink in input-line order: the "invalid
\* line" diagnostic of line j comes after every rule diagnostic of the values
\* from lines before j and before every rule diagnostic of the values from
\* lines after j.  (A rule diagnostic is written with the line of its value
\* being the last line read; along the output the lines never decrease, and
\* they increase around an "invalid line".)
C19_LineOrder ==
    /\ pc = "test" => ValueLineLast
    /\ ValueLineLast =>
          \A j \in 1..Len(diags) : OfCurrentValue(diags[j]) => diags[j].line = Len(lines)
    /\ \A j \in 1..(Len(diags) - 1) :
          /\ diags[j].line <= diags[j + 1].line
          /\ (diags[j].rule = "invalid line" \/ diags[j + 1].rule = "invalid line") =>
                diags[j].line < diags[j + 1].line

\* a value, a line that is no number, a value: a rule diagnostic of the first
\* value, then the "invalid line" of line 2, then a rule diagnostic of the
\* second value
C19_Witness ==
    /\ Len(lines) = 3
    /\ Parses(lines[1]) /\ ~IsBlank(lines[2]) /\ ~Parses(lines[2]) /\ Parses(lines[3])
    /\ \E j \in 2..(Len(diags) - 1) :
          /\ diags[j].rule = "invalid line" /\ diags[j].line = 2
          /\ diags[j - 1].rule \in RuleNames /\ diags[j - 1].at = 1
          /\ diags[j + 1].rule \in RuleNames /\ diags[j + 1].at = 2

\* the cursor of a window of capacity n after t appends, had it been advanced
\* modulo n right after each write
CursorModulo(w, n, t) ==
    /\ Len(w.data) = n
    /\ w.idx \in 0..(n - 1)
    /\ w.idx = t % n

\* the cursor as Window.append leaves it: 0 before the first append, then one
\* past the slot written last, which is n after the last slot was written;
\* the wrap to slot 0 is made by the next append, which writes slot t mod n
CursorLazy(w, n, t) ==
    /\ Len(w.data) = n
    /\ w.idx \in 0..n
    /\ w.idx = IF t = 0 THEN 0 ELSE ((t - 1) % n) + 1
    /\ w.idx % n = t % n
    /\ WindowAppend(w, m).idx = (t % n) + 1

\* C20 as stated: the buffer always has exactly N slots and between operations
\* the cursor is a valid slot index in 0..N-1, equal to the number of appends
\* so far modulo N.
C20_CursorModulo ==
    pc \in {"pull", "test", "done"} =>
        /\ CursorModulo(w2, 3, Len(seen["test_2_sigma"]))
        /\ CursorModulo(w1, 5, Len(seen["test_1_sigma"]))
        /\ \A t \in 1..5 : CursorModulo(wcl[t], ClaimTiers[t][2], Len(seen["test_cl_shift"]))

\* C20 amended: the buffer always has exactly N slots and between operations
\* the cursor is in 0..N: 0 before any append and ((t-1) mod N) + 1 after t
\* appends, so it is congruent to t modulo N and equals N, not 0, right after
\* the last slot was written; the next append then writes slot t mod N.
C20_Cursor ==
    pc \in {"pull", "test", "done"} =>
        /\ CursorLazy(w2, 3, Len(seen["test_2_sigma"]))
        /\ CursorLazy(w1, 5, Len(seen["test_1_sigma"]))
        /\ \A t \in 1..5 : CursorLazy(wcl[t], ClaimTiers[t][2], Len(seen["test_cl_shift"]))

\* after 20 values the cursor of the window of 20 is 20, and those of the
\* windows of 3 and 5, which have wrapped, are 2 and 5
C20_Witness ==
    /\ Len(seen["test_cl_shift"]) = 20
    /\ wcl[5].idx = 20
    /\ w2.idx = 2
    /\ w1.idx = 5

====
